---- MODULE Spec2Model ----
(***************************************************************************)
(* A model of skills_extractor.py (token extraction, consolidation and the *)
(* review workbook) and of the /extract endpoint of api_server.py.         *)
(*                                                                         *)
(* Text is a sequence of character codes, so that splitting, trimming,     *)
(* lower-casing and comparison are computed as Python computes them.  A    *)
(* blank spreadsheet cell (pandas' NaN) is the empty sequence.  Every cell *)
(* of the model holds text: the str() coercion of flatten_values (lines    *)
(* 54-55) is never taken.  The alphabet is the code points below 256, the  *)
(* whitespace characters and U+0130.  An Optional[str] is a sequence of    *)
(* length 0 (None) or 1.                                                   *)
(***************************************************************************)
EXTENDS Integers, Sequences, FiniteSets, TLC

VARIABLES
    fs,               \* the file system: a function from existing paths to files
    fs0,              \* history: the file system when the call under study began
    args,             \* arguments of the call under study
    pc,               \* position of the call under study
    df,               \* process_skills: value of pd.read_excel
    linkedin_skills,  \* process_skills / create_review_workbook: the known set
    unique_skills,    \* process_skills / create_review_workbook: the token list
    ret,              \* return value or raised exception of the call under study
    prev,             \* history: what the previous run of the pipeline wrote
    reqs,             \* /extract: per request state of the handler
    uuids             \* /extract: uuid4 values already drawn

vars == <<fs, fs0, args, pc, df, linkedin_skills, unique_skills, ret, prev,
          reqs, uuids>>

---------------------------------------------------------------------------
(* Bounds of the model *)

MaxRows == 2
MaxCols == 2
MaxCells == 2
MaxSkills == 3

---------------------------------------------------------------------------
(* Text *)

Newline == 10
Comma == 44

\* Characters str.strip() removes: those for which str.isspace() holds.
Whitespace ==
    {9, 10, 11, 12, 13, 28, 29, 30, 31, 32, 133, 160, 5760} \cup (8192..8202)
        \cup {8232, 8233, 8239, 8287, 12288}

\* str.lower() of one character, over the alphabet of the model: the code
\* points below 256, the whitespace characters and U+0130.  A-Z and the
\* capital letters of Latin-1 (U+00C0-U+00DE but the sign U+00D7) go to the
\* letter 32 above; U+0130 goes to "i" followed by U+0307; every other
\* character of the alphabet is its own lower case.
LowerChar(c) ==
    IF c \in (65..90) \cup (192..214) \cup (216..222) THEN <<c + 32>>
    ELSE IF c = 304 THEN <<105, 775>>
    ELSE <<c>>

\* str.lower()
RECURSIVE Lower(_)
Lower(s) == IF s = <<>> THEN <<>> ELSE LowerChar(s[1]) \o Lower(Tail(s))

\* Python's < on str: lexicographic by code point, a proper prefix first.
RECURSIVE StrLess(_, _)
StrLess(a, b) ==
    IF b = <<>> THEN FALSE
    ELSE IF a = <<>> THEN TRUE
    ELSE IF a[1] # b[1] THEN a[1] < b[1]
    ELSE StrLess(Tail(a), Tail(b))

StrLeq(a, b) == a = b \/ StrLess(a, b)

\* str.replace(old, new) for single characters.
Replace(s, old, new) == [i \in DOMAIN s |-> IF s[i] = old THEN new ELSE s[i]]

\* str.split(sep): the pieces between separators, empty pieces included.
RECURSIVE Split(_, _)
Split(s, sep) ==
    IF \A i \in DOMAIN s : s[i] # sep THEN <<s>>
    ELSE LET i == CHOOSE k \in DOMAIN s :
                     s[k] = sep /\ \A j \in 1..(k - 1) : s[j] # sep
         IN <<SubSeq(s, 1, i - 1)>> \o Split(SubSeq(s, i + 1, Len(s)), sep)

\* str.strip()
RECURSIVE Strip(_)
Strip(s) ==
    IF s = <<>> THEN s
    ELSE IF s[1] \in Whitespace THEN Strip(Tail(s))
    ELSE IF s[Len(s)] \in Whitespace THEN Strip(SubSeq(s, 1, Len(s) - 1))
    ELSE s

Range(f) == {f[i] : i \in DOMAIN f}

RECURSIVE Concat(_)
Concat(ss) == IF ss = <<>> THEN <<>> ELSE ss[1] \o Concat(Tail(ss))

NonEmpty(s) == s # <<>>

\* The pieces one value contributes (lines 56-59).
Parts(val) ==
    LET parts == Split(Replace(val, Newline, Comma), Comma)
    IN SelectSeq([i \in DOMAIN parts |-> Strip(parts[i])], NonEmpty)

flatten_values(values) == Concat([i \in DOMAIN values |-> Parts(values[i])])

\* The sort key of line 76: lambda s: s.lower().
SortKeyRaw(s) == s
SortKey(s) == Lower(s)

\* sorted(xs, key=SortKey): Python's sort is stable, as is this insertion sort
\* (an element goes after every element whose key is not greater).
RECURSIVE InsertByKey(_, _)
InsertByKey(x, sorted) ==
    IF sorted = <<>> THEN <<x>>
    ELSE IF StrLess(SortKey(x), SortKey(sorted[Len(sorted)]))
         THEN Append(InsertByKey(x, SubSeq(sorted, 1, Len(sorted) - 1)),
                     sorted[Len(sorted)])
         ELSE Append(sorted, x)

RECURSIVE SortedByKey(_)
SortedByKey(xs) ==
    IF xs = <<>> THEN <<>>
    ELSE InsertByKey(xs[Len(xs)], SortedByKey(SubSeq(xs, 1, Len(xs) - 1)))

\* The orders in which iterating over a set of str may yield its members:
\* str hashes are salted per process, so every order can occur.
IterationOrders(S) ==
    {o \in [1..Cardinality(S) -> S] : \A i, j \in DOMAIN o : i # j => o[i] # o[j]}

---------------------------------------------------------------------------
(* Paths and files *)

\* A path: directory, stem (the parts joined into the file name) and suffix.
\* Path.with_name(stem + "_review.xlsx") of lines 208 and 257.
ReviewPath(p) == [dir |-> p.dir, stem |-> Append(p.stem, "_review"), ext |-> ".xlsx"]

Exists(files, p) == p \in DOMAIN files

\* Writing a file creates it or replaces what was there.
Write(files, p, content) ==
    [q \in DOMAIN files \cup {p} |-> IF q = p THEN content ELSE files[q]]

Remove(files, p) == [q \in DOMAIN files \ {p} |-> files[q]]

---------------------------------------------------------------------------
(* Workbooks as pandas reads them *)

\* A workbook file holds its sheets in order; a sheet is a function from the
\* <<row, column>> of each non-blank cell to the cell's text.
SheetNames == <<"S1", "S2">>

\* Cell texts of the model: "B", "b,a", " a\nB ", ", ,"
CellPool == { <<66>>, <<98, 44, 97>>, <<32, 97, 10, 66, 32>>, <<44, 32, 44>> }

CellSlots == {<<n, r, c>> : n \in DOMAIN SheetNames, r \in 1..MaxRows, c \in 1..MaxCols}

RECURSIVE SlotSets(_)
SlotSets(k) ==
    IF k = 0 THEN {{}}
    ELSE LET smaller == SlotSets(k - 1)
         IN smaller \cup {K \cup {x} : K \in smaller, x \in CellSlots}

WorkbookOf(f) ==
    [kind |-> "workbook",
     sheets |-> [n \in DOMAIN SheetNames |->
                   [rc \in {<<x[2], x[3]>> : x \in {y \in DOMAIN f : y[1] = n}}
                      |-> f[<<n, rc[1], rc[2]>>]]]]

WorkbooksOver(pool) ==
    {WorkbookOf(f) : f \in UNION {[K -> pool] : K \in SlotSets(MaxCells)}}

Workbooks == WorkbooksOver(CellPool)

Max(S) == CHOOSE m \in S : \A x \in S : x <= m

EmptyFrame == [kind |-> "frame", cols |-> <<>>]

\* The DataFrame pd.read_excel makes of one sheet: the rows up to the last
\* one holding a cell, padded to the widest row; the first row is the header
\* (blank or not; no row is skipped), the others are the data.  A column is
\* the sequence of its data values, blank cells being NaN (the empty text).
FrameOf(sheet) ==
    IF DOMAIN sheet = {} THEN EmptyFrame
    ELSE LET width == Max({rc[2] : rc \in DOMAIN sheet})
             height == Max({rc[1] : rc \in DOMAIN sheet})
             Cell(r, c) == IF <<r, c>> \in DOMAIN sheet THEN sheet[<<r, c>>] ELSE <<>>
         IN [kind |-> "frame",
             cols |-> [c \in 1..width |-> [i \in 1..(height - 1) |-> Cell(i + 1, c)]]]

SheetIndex(name) == CHOOSE n \in DOMAIN SheetNames : SheetNames[n] = name

\* pd.read_excel(path, sheet_name=sheet_name) on an existing workbook:
\* sheet_name=None yields a dict of the frames of all sheets, a name that is
\* no sheet raises ValueError.
read_excel(file, sheet_name) ==
    IF sheet_name = <<>>
    THEN [kind |-> "dict",
          frames |-> [n \in DOMAIN file.sheets |-> FrameOf(file.sheets[n])]]
    ELSE IF sheet_name[1] \notin Range(SheetNames)
    THEN [kind |-> "raised", exc |-> "ValueError"]
    ELSE FrameOf(file.sheets[SheetIndex(sheet_name[1])])

\* Series.dropna().tolist()
DropNa(col) == SelectSeq(col, NonEmpty)

\* Python truth of an Optional[str]: None and "" are false.
Truthy(sheet) == sheet # <<>> /\ sheet[1] # ""

\* Lines 67-74: the tokens of every column of every selected sheet, or the
\* exception raised on the way.
all_skills_of(files, excel_path, sheet) ==
    IF ~Exists(files, excel_path)
    THEN [kind |-> "raised", exc |-> "FileNotFoundError"]
    ELSE LET sheet_names == IF Truthy(sheet) THEN sheet
                            ELSE SheetNames
             frames == [i \in DOMAIN sheet_names |->
                          read_excel(files[excel_path], <<sheet_names[i]>>)]
         IN IF \E i \in DOMAIN frames : frames[i].kind = "raised"
            THEN [kind |-> "raised", exc |-> "ValueError"]
            ELSE [kind |-> "list",
                  val |-> Concat([i \in DOMAIN frames |->
                            Concat([c \in DOMAIN frames[i].cols |->
                                      flatten_values(DropNa(frames[i].cols[c]))])])]

\* Line 76, given the order in which the set yields its members.
unique_sorted(order) == SortedByKey(order)

\* extract_unique_skills(excel_path, sheet): the possible results.
extract_unique_skills(files, excel_path, sheet) ==
    LET all == all_skills_of(files, excel_path, sheet)
    IN IF all.kind = "raised" THEN {all}
       ELSE {[kind |-> "list", val |-> unique_sorted(o)] :
                o \in IterationOrders(Range(all.val))}

---------------------------------------------------------------------------
(* extract_unique_skills called on its own *)

InPath == [dir |-> "data", stem |-> <<"skills">>, ext |-> ".xlsx"]

\* None, "", the two sheets, a name that is no sheet.
SheetArgs == {<<>>, <<"">>, <<"S1">>, <<"S2">>, <<"S9">>}

NoValue == [kind |-> "none"]

InitExtract ==
    /\ fs \in {<<>>} \cup {(InPath :> wb) : wb \in Workbooks}
    /\ fs0 = fs
    /\ \E sh \in SheetArgs :
          args = [fn |-> "extract_unique_skills", excel_path |-> InPath, sheet |-> sh]
    /\ pc = "call"
    /\ df = NoValue
    /\ linkedin_skills = {}
    /\ unique_skills = <<>>
    /\ ret = NoValue
    /\ prev = NoValue
    /\ reqs = <<>>
    /\ uuids = {}

ExtractReturns ==
    /\ pc = "call"
    /\ \E r \in extract_unique_skills(fs, args.excel_path, args.sheet) :
          /\ r.kind = "list"
          /\ ret' = r
    /\ pc' = "returned"
    /\ UNCHANGED <<fs, fs0, args, df, linkedin_skills, unique_skills, prev, reqs, uuids>>

ExtractRaises ==
    /\ pc = "call"
    /\ \E r \in extract_unique_skills(fs, args.excel_path, args.sheet) :
          /\ r.kind = "raised"
          /\ ret' = r
    /\ pc' = "raised"
    /\ UNCHANGED <<fs, fs0, args, df, linkedin_skills, unique_skills, prev, reqs, uuids>>

NextExtract == ExtractReturns \/ ExtractRaises

SpecExtract == InitExtract /\ [][NextExtract]_vars

\* The sheets a call scans, as indexes of the workbook.
ScannedSheets == IF Truthy(args.sheet) THEN {SheetIndex(args.sheet[1])}
                 ELSE DOMAIN SheetNames

\* The non-empty trimmed pieces of every non-blank cell of the scanned sheets,
\* the cells of the first row included.
PiecesOfSheet(sheet) == UNION {Range(Parts(sheet[rc])) : rc \in DOMAIN sheet}

AllPieces == UNION {PiecesOfSheet(fs[args.excel_path].sheets[n]) : n \in ScannedSheets}

LowerSet(S) == {Lower(t) : t \in S}

\* C1: the list extract_unique_skills returns has no two entries that are
\* equal under case-insensitive comparison.
C1_NoCaseInsensitiveDuplicates ==
    pc = "returned" =>
        \A i, j \in DOMAIN ret.val : i # j => Lower(ret.val[i]) # Lower(ret.val[j])

\* C2: the returned list equals, up to letter case, the set of non-empty
\* trimmed pieces of every non-blank cell of the scanned sheets (first row
\* included), and every entry is such a piece in a casing of the input.
C2_ListIsAllPieces ==
    pc = "returned" =>
        /\ LowerSet(Range(ret.val)) = LowerSet(AllPieces)
        /\ Range(ret.val) \subseteq AllPieces
        /\ \A i \in DOMAIN ret.val : ret.val[i] # <<>> /\ Strip(ret.val[i]) = ret.val[i]

\* C8: the list extract_unique_skills returns is sorted non-descending by
\* the lower-cased form of its entries.
C8_SortedByLower ==
    pc = "returned" =>
        \A i, j \in DOMAIN ret.val :
            i < j => StrLeq(Lower(ret.val[i]), Lower(ret.val[j]))

\* C8 witness: a returned list of three entries whose order by lower-cased
\* form differs from the order of the entries themselves.
C8_Witness ==
    /\ pc = "returned"
    /\ Len(ret.val) >= 3
    /\ \E i, j \in DOMAIN ret.val : i < j /\ StrLess(ret.val[j], ret.val[i])

---------------------------------------------------------------------------
(* create_review_workbook *)

\* Line 125: skill in linkedin_skills
IsMarkedIgnoringCase(skill, known) == \E k \in known : Lower(k) = Lower(skill)
IsMarked(skill, known) == skill \in known

\* Lines 123-126: the cells the loop writes, keyed by <<column, row>>;
\* enumerate(skills, start=2) puts skills[i] in row i + 1.
FirstDataRow == 2

SkillCells(skills, known) ==
    LET RowOf(i) == i + FirstDataRow - 1
        rows == {RowOf(i) : i \in DOMAIN skills}
        marked == {RowOf(i) : i \in {k \in DOMAIN skills : IsMarked(skills[k], known)}}
        At(r) == CHOOSE i \in DOMAIN skills : RowOf(i) = r
    IN [cr \in ({"A"} \X rows) \cup ({"B"} \X marked) |->
            IF cr[1] = "A" THEN skills[At(cr[2])] ELSE "Yes"]

\* Lines 120-121
HeaderCells == (<<"A", 1>> :> "Skill") @@ (<<"B", 1>> :> "Have skill? (Mark X or YES)")

\* Line 135
EndRowShort(skills) == Len(skills)
EndRow(skills) == Len(skills) + 1

\* The workbook create_review_workbook saves (default style arguments).  A
\* later assignment to a cell replaces an earlier one.
create_review_workbook(skills, known) ==
    [kind |-> "review",
     title |-> "Skills Review",
     cells |-> SkillCells(skills, known) @@ HeaderCells,
     widths |-> [A |-> 45, B |-> 30],
     freeze_panes |-> <<"A", 2>>,
     table |-> [displayName |-> "SkillsTable",
                ref |-> <<<<"A", 1>>, <<"B", EndRow(skills)>>>>,
                style |-> [name |-> "TableStyleMedium9",
                           showFirstColumn |-> FALSE, showLastColumn |-> FALSE,
                           showRowStripes |-> TRUE, showColumnStripes |-> FALSE]]]

\* Worksheet.max_row: the last row holding a cell.
RowCount(doc) == Max({cr[2] : cr \in DOMAIN doc.cells})

OutPath == ReviewPath(InPath)

\* Tokens of the model: "B", "b", "a"
TokenPool == { <<66>>, <<98>>, <<97>> }

SkillLists == UNION {[1..n -> TokenPool] : n \in 0..MaxSkills}

\* What may lie at the output path beforehand: a review workbook of an
\* earlier run.
OldReview == create_review_workbook(<< <<97>> >>, {})

InitReview ==
    /\ fs \in { <<>>, (OutPath :> OldReview) }
    /\ fs0 = fs
    /\ \E sk \in SkillLists, known \in SUBSET TokenPool :
          args = [fn |-> "create_review_workbook", skills |-> sk,
                  linkedin_skills |-> known, output_path |-> OutPath]
    /\ pc = "call"
    /\ df = NoValue
    /\ linkedin_skills = {}
    /\ unique_skills = <<>>
    /\ ret = NoValue
    /\ prev = NoValue
    /\ reqs = <<>>
    /\ uuids = {}

CreateReviewWorkbook ==
    /\ pc = "call"
    /\ fs' = Write(fs, args.output_path,
                   create_review_workbook(args.skills, args.linkedin_skills))
    /\ pc' = "returned"
    /\ UNCHANGED <<fs0, args, df, linkedin_skills, unique_skills, ret, prev, reqs, uuids>>

NextReview == CreateReviewWorkbook

SpecReview == InitReview /\ [][NextReview]_vars

Written == fs[args.output_path]

\* C3: row i + 1 of the written document holds skills[i] in column A, and
\* "Yes" in column B exactly when skills[i] is a member of linkedin_skills
\* (column B is empty otherwise); a member of linkedin_skills that is not
\* in skills has no row.
C3_RowsAndMarks ==
    pc = "returned" =>
        /\ \A i \in DOMAIN args.skills :
              /\ <<"A", i + 1>> \in DOMAIN Written.cells
              /\ Written.cells[<<"A", i + 1>>] = args.skills[i]
              /\ (args.skills[i] \in args.linkedin_skills) <=>
                    (<<"B", i + 1>> \in DOMAIN Written.cells)
              /\ <<"B", i + 1>> \in DOMAIN Written.cells =>
                    Written.cells[<<"B", i + 1>>] = "Yes"
        /\ \A cr \in DOMAIN Written.cells :
              cr[2] >= 2 => /\ (cr[2] - 1) \in DOMAIN args.skills
                            /\ cr[1] \in {"A", "B"}

\* C3 witness: a written document with a marked row, an unmarked row and a
\* known token that is no row.
C3_Witness ==
    /\ pc = "returned"
    /\ \E i, j \in DOMAIN args.skills :
          /\ args.skills[i] \in args.linkedin_skills
          /\ args.skills[j] \notin args.linkedin_skills
          /\ Lower(args.skills[j]) \in LowerSet(args.linkedin_skills)
    /\ \E k \in args.linkedin_skills : k \notin Range(args.skills)

\* C9: the written sheet has exactly len(skills) + 1 rows and the table
\* region is exactly A1:B(len(skills) + 1).
C9_RowCountAndTableRef ==
    pc = "returned" =>
        /\ RowCount(Written) = Len(args.skills) + 1
        /\ Written.table.ref = <<<<"A", 1>>, <<"B", RowCount(Written)>>>>
        /\ \A r \in 1..RowCount(Written) : <<"A", r>> \in DOMAIN Written.cells

\* C9 witness: a written document of two tokens: three rows.
C9_Witness ==
    /\ pc = "returned"
    /\ Len(args.skills) >= 2
    /\ RowCount(Written) = 3

---------------------------------------------------------------------------
(* process_skills and main, statement by statement *)

\* determine_linkedin_skills(df): df.columns of a dict raises
\* AttributeError, df.columns[0] of a frame without columns IndexError.
determine_linkedin_skills(frame) ==
    IF frame.kind = "dict" THEN [kind |-> "raised", exc |-> "AttributeError"]
    ELSE IF frame.cols = <<>> THEN [kind |-> "raised", exc |-> "IndexError"]
    ELSE [kind |-> "set", val |-> Range(flatten_values(DropNa(frame.cols[1])))]

\* build_share_message(client_name, sender_name), the fixed text abbreviated.
build_share_message(client_name, sender_name) ==
    <<"Hi ", client_name, ",\n\n", "I've compiled ...", "\n\nThanks,\n", sender_name>>

\* Cell texts of the workbooks the pipeline is run on: "B", "b,a"
PipelinePool == { <<66>>, <<98, 44, 97>> }

\* None, a sheet, the other sheet, a name that is no sheet.
PipelineSheetArgs == {<<>>, <<"S1">>, <<"S2">>, <<"S9">>}

\* The --output option of main: absent, or a path elsewhere.
OtherPath == [dir |-> "out", stem |-> <<"elsewhere">>, ext |-> ".xlsx"]
OutputArgs == {<<>>, <<OtherPath>>}

\* Where a call starts: process_skills at line 253, main at line 202.
StartPc(call) == IF call.fn = "main" THEN "m_exists" ELSE "exists"

InitPipeline ==
    /\ \E input \in {<<>>} \cup {(InPath :> wb) : wb \in WorkbooksOver(PipelinePool)},
          output \in {<<>>, (OutPath :> OldReview)} :
          fs = input @@ output
    /\ fs0 = fs
    /\ \E sh \in PipelineSheetArgs :
          \/ args = [fn |-> "process_skills", excel_path |-> InPath, sheet |-> sh,
                     client |-> "Client", sender |-> "Your Name"]
          \/ \E out \in OutputArgs :
                args = [fn |-> "main", excel_path |-> InPath, sheet |-> sh,
                        output |-> out, client |-> "Client", sender |-> "Your Name"]
    /\ pc = StartPc(args)
    /\ df = NoValue
    /\ linkedin_skills = {}
    /\ unique_skills = <<>>
    /\ ret = NoValue
    /\ prev = NoValue
    /\ reqs = <<>>
    /\ uuids = {}

\* Lines 207-210 of main.
main_output_path ==
    IF args.output = <<>> THEN ReviewPath(args.excel_path) ELSE args.output[1]

\* The destination of the call: line 257 in process_skills.
output_path ==
    IF args.fn = "main" THEN main_output_path ELSE ReviewPath(args.excel_path)

Raise(exc) ==
    /\ pc' = "raised"
    /\ ret' = [kind |-> "raised", exc |-> exc]

\* Lines 253-255
PsCheckExists ==
    /\ pc = "exists"
    /\ IF Exists(fs, args.excel_path)
       THEN pc' = "read_excel" /\ UNCHANGED ret
       ELSE Raise("FileNotFoundError")
    /\ UNCHANGED <<fs, fs0, args, df, linkedin_skills, unique_skills, prev, reqs, uuids>>

\* A variant that saves a placeholder workbook before reading the input.
PsReadExcelAfterWrite ==
    /\ pc = "read_excel"
    /\ fs' = Write(fs, output_path, create_review_workbook(<<>>, {}))
    /\ LET r == read_excel(fs[args.excel_path], args.sheet)
       IN IF r.kind = "raised"
          THEN Raise(r.exc) /\ UNCHANGED df
          ELSE df' = r /\ pc' = "determine" /\ UNCHANGED ret
    /\ UNCHANGED <<fs0, args, linkedin_skills, unique_skills, prev, reqs, uuids>>

\* Line 258
PsReadExcel ==
    /\ pc = "read_excel"
    /\ LET r == read_excel(fs[args.excel_path], args.sheet)
       IN IF r.kind = "raised"
          THEN Raise(r.exc) /\ UNCHANGED df
          ELSE df' = r /\ pc' = "determine" /\ UNCHANGED ret
    /\ UNCHANGED <<fs, fs0, args, linkedin_skills, unique_skills, prev, reqs, uuids>>

\* Line 259
PsDetermine ==
    /\ pc = "determine"
    /\ LET r == determine_linkedin_skills(df)
       IN IF r.kind = "raised"
          THEN Raise(r.exc) /\ UNCHANGED linkedin_skills
          ELSE linkedin_skills' = r.val /\ pc' = "extract" /\ UNCHANGED ret
    /\ UNCHANGED <<fs, fs0, args, df, unique_skills, prev, reqs, uuids>>

\* Line 260
PsExtract ==
    /\ pc = "extract"
    /\ \E r \in extract_unique_skills(fs, args.excel_path, args.sheet) :
          IF r.kind = "raised"
          THEN Raise(r.exc) /\ UNCHANGED unique_skills
          ELSE unique_skills' = r.val /\ pc' = "create" /\ UNCHANGED ret
    /\ UNCHANGED <<fs, fs0, args, df, linkedin_skills, prev, reqs, uuids>>

\* Line 261
PsCreate ==
    /\ pc = "create"
    /\ fs' = Write(fs, output_path, create_review_workbook(unique_skills, linkedin_skills))
    /\ pc' = "message"
    /\ UNCHANGED <<fs0, args, df, linkedin_skills, unique_skills, ret, prev, reqs, uuids>>

\* Lines 262-263
PsReturn ==
    /\ pc = "message"
    /\ ret' = [kind |-> "dict", output_file |-> output_path,
               message |-> build_share_message(args.client, args.sender)]
    /\ pc' = "returned"
    /\ UNCHANGED <<fs, fs0, args, df, linkedin_skills, unique_skills, prev, reqs, uuids>>

\* main, lines 202-204: parser.error exits with SystemExit(2).
MainCheckExists ==
    /\ pc = "m_exists"
    /\ IF Exists(fs, args.excel_path)
       THEN pc' = "m_read_excel" /\ UNCHANGED ret
       ELSE Raise("SystemExit")
    /\ UNCHANGED <<fs, fs0, args, df, linkedin_skills, unique_skills, prev, reqs, uuids>>

\* main, line 213
MainReadExcel ==
    /\ pc = "m_read_excel"
    /\ LET r == read_excel(fs[args.excel_path], args.sheet)
       IN IF r.kind = "raised"
          THEN Raise(r.exc) /\ UNCHANGED df
          ELSE df' = r /\ pc' = "m_determine" /\ UNCHANGED ret
    /\ UNCHANGED <<fs, fs0, args, linkedin_skills, unique_skills, prev, reqs, uuids>>

\* main, line 214
MainDetermine ==
    /\ pc = "m_determine"
    /\ LET r == determine_linkedin_skills(df)
       IN IF r.kind = "raised"
          THEN Raise(r.exc) /\ UNCHANGED linkedin_skills
          ELSE linkedin_skills' = r.val /\ pc' = "m_extract" /\ UNCHANGED ret
    /\ UNCHANGED <<fs, fs0, args, df, unique_skills, prev, reqs, uuids>>

\* main, line 215
MainExtract ==
    /\ pc = "m_extract"
    /\ \E r \in extract_unique_skills(fs, args.excel_path, args.sheet) :
          IF r.kind = "raised"
          THEN Raise(r.exc) /\ UNCHANGED unique_skills
          ELSE unique_skills' = r.val /\ pc' = "m_create" /\ UNCHANGED ret
    /\ UNCHANGED <<fs, fs0, args, df, linkedin_skills, prev, reqs, uuids>>

\* main, line 218
MainCreate ==
    /\ pc = "m_create"
    /\ fs' = Write(fs, main_output_path,
                   create_review_workbook(unique_skills, linkedin_skills))
    /\ pc' = "m_print"
    /\ UNCHANGED <<fs0, args, df, linkedin_skills, unique_skills, ret, prev, reqs, uuids>>

\* main, lines 221-224: the path and the message are printed, None is returned.
MainPrint ==
    /\ pc = "m_print"
    /\ ret' = [kind |-> "None",
               printed |-> <<main_output_path, build_share_message(args.client, args.sender)>>]
    /\ pc' = "returned"
    /\ UNCHANGED <<fs, fs0, args, df, linkedin_skills, unique_skills, prev, reqs, uuids>>

NextPipeline ==
    \/ MainCheckExists
    \/ MainReadExcel
    \/ MainDetermine
    \/ MainExtract
    \/ MainCreate
    \/ MainPrint
    \/ PsCheckExists
    \/ PsReadExcel
    \/ PsDetermine
    \/ PsExtract
    \/ PsCreate
    \/ PsReturn

SpecPipeline == InitPipeline /\ [][NextPipeline]_vars

\* A second execution of the pipeline, in a new process, on the same input
\* and destination; prev keeps what the first one left at the destination.
RunAgain ==
    /\ pc \in {"returned", "raised"}
    /\ prev = NoValue
    /\ prev' = [kind |-> "run", status |-> pc,
                output |-> IF Exists(fs, output_path) THEN <<fs[output_path]>> ELSE <<>>]
    /\ pc' = StartPc(args)
    /\ df' = NoValue
    /\ linkedin_skills' = {}
    /\ unique_skills' = <<>>
    /\ ret' = NoValue
    /\ fs0' = fs
    /\ UNCHANGED <<fs, args, reqs, uuids>>

NextTwoRuns == NextPipeline \/ RunAgain

SpecTwoRuns == InitPipeline /\ [][NextTwoRuns]_vars

Finished == pc \in {"returned", "raised"}

InputExists == Exists(fs, args.excel_path)

\* C4: with no sheet name and an existing workbook the pipeline completes
\* without error, having written the review document.
C4_NoSheetNameCompletes ==
    (args.sheet = <<>> /\ InputExists /\ Finished) =>
        (pc = "returned" /\ Exists(fs, output_path))

\* The sheet named in the call exists and has zero non-blank cells.
ZeroNonBlankCells ==
    /\ InputExists
    /\ args.sheet # <<>>
    /\ args.sheet[1] \in Range(SheetNames)
    /\ DOMAIN fs[args.excel_path].sheets[SheetIndex(args.sheet[1])] = {}

\* C5: on a workbook whose processed sheet has zero non-blank cells the
\* pipeline completes without error, the consolidated list is empty and the
\* review document has exactly the header row.  (Stated for a call that
\* names the sheet.)
C5_EmptySheetCompletes ==
    (ZeroNonBlankCells /\ Finished) =>
        /\ pc = "returned"
        /\ unique_skills = <<>>
        /\ Exists(fs, output_path)
        /\ RowCount(fs[output_path]) = 1

\* C6: two runs of the pipeline on the same input and destination leave
\* documents with identical row content.
C6_TwoRunsSameRows ==
    (prev # NoValue /\ prev.status = "returned" /\ pc = "returned") =>
        fs[output_path].cells = prev.output[1].cells

FileAt(files, p) == IF Exists(files, p) THEN <<files[p]>> ELSE <<>>

SheetAbsent == args.sheet # <<>> /\ args.sheet[1] \notin Range(SheetNames)

\* C7: process_skills writes the output file only after the existence check,
\* the known-set extraction and the consolidated extraction have succeeded;
\* if the input path does not exist or the named sheet is absent, the call
\* fails and the output path holds what it held before (nothing, or the
\* file that was there).
C7_OutputOnlyAfterSuccess ==
    args.fn = "process_skills" =>
        /\ pc \notin {"message", "returned"} =>
              FileAt(fs, output_path) = FileAt(fs0, output_path)
        /\ (~InputExists \/ SheetAbsent) =>
              /\ pc \notin {"determine", "extract", "create", "message", "returned"}
              /\ Finished => pc = "raised"

\* C7 witness: the call has failed on an absent sheet, an earlier file
\* lying at the output path.
C7_Witness ==
    /\ args.fn = "process_skills"
    /\ pc = "raised"
    /\ InputExists
    /\ SheetAbsent
    /\ ret.exc = "ValueError"
    /\ Exists(fs, output_path)

---------------------------------------------------------------------------
(* The /extract endpoint *)

\* process_skills(excel_path, sheet, client, sender) as one call: the
\* possible outcomes, each with the file system it leaves.
process_skills(files, excel_path, sheet, client, sender) ==
    IF ~Exists(files, excel_path)
    THEN {[kind |-> "raised", exc |-> "FileNotFoundError", files |-> files]}
    ELSE LET out == ReviewPath(excel_path)
             frame == read_excel(files[excel_path], sheet)
             known == determine_linkedin_skills(frame)
         IN IF frame.kind = "raised"
            THEN {[kind |-> "raised", exc |-> frame.exc, files |-> files]}
            ELSE IF known.kind = "raised"
            THEN {[kind |-> "raised", exc |-> known.exc, files |-> files]}
            ELSE {IF r.kind = "raised"
                  THEN [kind |-> "raised", exc |-> r.exc, files |-> files]
                  ELSE [kind |-> "dict", output_file |-> out,
                        message |-> build_share_message(client, sender),
                        files |-> Write(files, out,
                                        create_review_workbook(r.val, known.val))] :
                     r \in extract_unique_skills(files, excel_path, sheet)}

Reqs == {1, 2}

\* uuid4 values; a draw never repeats an earlier one.
UuidPool == {"u1", "u2"}

UploadNames == {[stem |-> "cv", ext |-> ".xlsx"], [stem |-> "jobs", ext |-> ".xlsx"]}

\* Uploaded workbooks: sheet S1 with a header and "b,a", or with a header and "B".
UploadContents ==
    { WorkbookOf((<<1, 1, 1>> :> <<66>>) @@ (<<1, 2, 1>> :> <<98, 44, 97>>)),
      WorkbookOf((<<1, 1, 1>> :> <<66>>) @@ (<<1, 2, 1>> :> <<66>>)) }

ApiSheets == {"S1", "S9"}

InitApi ==
    /\ fs = <<>>
    /\ fs0 = fs
    /\ args = NoValue
    /\ pc = "serving"
    /\ df = NoValue
    /\ linkedin_skills = {}
    /\ unique_skills = <<>>
    /\ ret = NoValue
    /\ prev = NoValue
    /\ reqs \in [Reqs -> [pc : {"recv"},
                          file : [filename : UploadNames, content : UploadContents],
                          sheet : ApiSheets, client : {"Client"}, sender : {"Your Name"},
                          temp_filename : {<<>>}, review_path : {<<>>},
                          dest_path : {<<>>}, response : {NoValue}]]
    /\ uuids = {}

\* Lines 24-28: the upload is stored under tmp_<uuid4>_<file name>.
ApiSaveUpload(r) ==
    /\ reqs[r].pc = "recv"
    /\ \E u \in UuidPool \ uuids :
          LET temp == [dir |-> "tmp",
                       stem |-> <<"tmp", u, reqs[r].file.filename.stem>>,
                       ext |-> reqs[r].file.filename.ext]
          IN /\ uuids' = uuids \cup {u}
             /\ fs' = Write(fs, temp, reqs[r].file.content)
             /\ reqs' = [reqs EXCEPT ![r].pc = "saved", ![r].temp_filename = <<temp>>]
    /\ UNCHANGED <<fs0, args, pc, df, linkedin_skills, unique_skills, ret, prev>>

\* Lines 31-34, and lines 83-86 when process_skills raises.
ApiProcessSkills(r) ==
    /\ reqs[r].pc = "saved"
    /\ \E o \in process_skills(fs, reqs[r].temp_filename[1], <<reqs[r].sheet>>,
                               reqs[r].client, reqs[r].sender) :
          /\ fs' = o.files
          /\ IF o.kind = "raised"
             THEN reqs' = [reqs EXCEPT ![r].pc = "done",
                              ![r].response = [status |-> 500, error |-> o.exc]]
             ELSE reqs' = [reqs EXCEPT ![r].pc = "processed",
                              ![r].review_path = <<o.output_file>>,
                              ![r].response = [status |-> 0, output_file |-> o.output_file,
                                               message |-> o.message]]
    /\ UNCHANGED <<fs0, args, pc, df, linkedin_skills, unique_skills, ret, prev, uuids>>

\* Lines 37-48: the review file is moved to <base name>_review.xlsx in the
\* final directory, replacing a file of that name.
ApiMoveReview(r) ==
    /\ reqs[r].pc = "processed"
    /\ LET review == reqs[r].review_path[1]
           dest == [dir |-> "cwd",
                    stem |-> <<reqs[r].file.filename.stem, "_review">>,
                    ext |-> ".xlsx"]
       IN IF Exists(fs, review)
          THEN /\ fs' = Remove(Write(fs, dest, fs[review]), review)
               /\ reqs' = [reqs EXCEPT ![r].pc = "moved", ![r].dest_path = <<dest>>,
                              ![r].response.output_file = dest]
          ELSE /\ fs' = fs
               /\ reqs' = [reqs EXCEPT ![r].pc = "moved"]
    /\ UNCHANGED <<fs0, args, pc, df, linkedin_skills, unique_skills, ret, prev, uuids>>

\* Lines 57-81
ApiRespond(r) ==
    /\ reqs[r].pc = "moved"
    /\ reqs' = [reqs EXCEPT ![r].pc = "done", ![r].response.status = 200]
    /\ UNCHANGED <<fs, fs0, args, pc, df, linkedin_skills, unique_skills, ret, prev, uuids>>

NextApi ==
    \E r \in Reqs :
        \/ ApiSaveUpload(r)
        \/ ApiProcessSkills(r)
        \/ ApiMoveReview(r)
        \/ ApiRespond(r)

SpecApi == InitApi /\ [][NextApi]_vars

\* The paths a request has used so far.
UsedPaths(r) ==
    Range(reqs[r].temp_filename) \cup Range(reqs[r].review_path) \cup Range(reqs[r].dest_path)

\* C10: in every interleaving of two /extract requests, the same file name
\* uploaded twice included, each request uses its own temporary input file,
\* its own temporary output and its own final output path.
C10_RequestsUseOwnPaths ==
    \A r1, r2 \in Reqs : r1 # r2 => UsedPaths(r1) \cap UsedPaths(r2) = {}

====
